---- MODULE Spec2Model ----
(***************************************************************************)
(* The session-resilient connection workflow of the SDK dashboard:         *)
(* connectToBrowserSandbox (lib/codesandbox) and the useCodeSandbox hook   *)
(* (hooks/useCodeSandbox), together with the remote platform (resume,      *)
(* createSession), the browser transport (connectToSandbox of the SDK,     *)
(* client.disconnect, the getSession and onFocusChange callbacks) and the  *)
(* document's visibilitychange events.                                     *)
(*                                                                         *)
(* Every invocation of connectToSandbox / createAndConnect is a "call",    *)
(* numbered 1..MaxCalls in the order the calls are made.  A call that      *)
(* opens a client opens the client with the call's number.                 *)
(*                                                                         *)
(* The components around the hook have their own variables and their own   *)
(* specifications: the CliDashboard's auto-init effect (SpecCli), the      *)
(* Dashboard's API key (SpecKey), the SandboxManager's terminal effect     *)
(* (SpecManager) and its file browser (SpecFiles).                         *)
(***************************************************************************)
EXTENDS Naturals, Sequences, FiniteSets, TLC

\* ---------------------------------------------------------------- bounds
MaxCalls == 2
MaxSupplier == 2
MaxEvents == 2
MaxDisconnects == 2

Calls == 1..MaxCalls

\* CliDashboard: initializeTerminal invocations, changes of the sandboxes prop
MaxInits == 2
MaxListChanges == 3
MaxListLength == 2

Inits == 1..MaxInits

\* Dashboard: handleApiKeySubmit invocations, length of the text typed as key
MaxSubmits == 2
MaxTyped == 2

Submits == 1..MaxSubmits

\* SandboxManager: initTerminal invocations
MaxTermInits == 2

TermInits == 1..MaxTermInits

\* SandboxManager: loadFiles invocations
MaxLoads == 3

Loads == 1..MaxLoads

\* ------------------------------------------------------ values of the model
\* Sandbox ids and the listing entries (sandboxInfo) the caller connects with.
SandboxIds == {"abc123"}
\* The id the platform gives the sandbox createAndConnect creates.
NewSandboxId == "new789"
SandboxInfos ==
    [id : SandboxIds, title : {"Demo"}, privacy : {"unlisted"},
     createdAt : {"2024-01-01"}, updatedAt : {"2024-02-02"}, tags : {"demo,test"}]

\* The title a resume response carries: the resume endpoint does not echo the
\* caller's listing metadata.
NoTitle == "undefined"
Undefined == "undefined"
NoSandbox ==
    [id |-> "null", title |-> NoTitle, privacy |-> Undefined,
     createdAt |-> Undefined, updatedAt |-> Undefined, tags |-> Undefined]

\* Error messages as word sequences; String.prototype.includes is modelled on
\* the words of the message.
Includes(message, word) == \E i \in DOMAIN message : message[i] = word

Messages ==
    { <<"Sandbox", "not", "found">>,
      <<"Failed", "to", "create", "session">>,
      <<"WebSocket", "connection", "closed">> }

\* What a rejected remote call throws: an Error with a message, or a value
\* that is not an Error instance.
Thrown == [isError : {TRUE}, message : Messages] \cup {[isError |-> FALSE, message |-> <<>>]}

\* connectionError: null, or one of the messages the hook sets.
NoError == [kind |-> "null", detail |-> <<>>]
DefaultConnectMessage == [kind |-> "Failed to connect to sandbox", detail |-> <<>>]
WebSocketMessage == [kind |-> "WebSocket connection failed", detail |-> <<>>]
SessionMessage == [kind |-> "Failed to create sandbox session", detail |-> <<>>]
ConnectionFailedMessage(m) == [kind |-> "Connection failed: ", detail |-> m]
DefaultCreateMessage == [kind |-> "Failed to create and connect to sandbox", detail |-> <<>>]
CreateFailedMessage(m) == [kind |-> "Create and connect failed: ", detail |-> m]
ConnectionLostMessage == [kind |-> "Connection lost due to WebSocket error", detail |-> <<>>]

\* activeSandbox: null, or a SandboxWithClient record.  client = 0 is null.
NullActive == [isNull |-> TRUE, sandbox |-> NoSandbox, client |-> 0, isConnecting |-> FALSE]
\* Mutant of SandboxWithClient: the record keeps isConnecting true when the client
\* is stored.
SandboxWithClientStillConnecting(sandbox, client, isConnecting) ==
    [isNull |-> FALSE, sandbox |-> sandbox, client |-> client, isConnecting |-> TRUE]

SandboxWithClient(sandbox, client, isConnecting) ==
    [isNull |-> FALSE, sandbox |-> sandbox, client |-> client, isConnecting |-> isConnecting]
ConnectingPlaceholder == SandboxWithClient(NoSandbox, 0, TRUE)

\* A session: the n-th session the platform created in call k.
NoSession == <<0, 0>>
Sessions == Calls \X (1..(MaxSupplier + 1))

\* The settlement of a getSession promise: resolved with a session (NoSession is
\* undefined) or rejected with an error.
NotThrown == [isError |-> FALSE, message |-> <<"nothing">>]
NoResult == [kind |-> "none", session |-> NoSession, error |-> NotThrown]
Pending == [kind |-> "pending", session |-> NoSession, error |-> NotThrown]
Resolved(session) == [kind |-> "resolved", session |-> session, error |-> NotThrown]
Rejected(error) == [kind |-> "rejected", session |-> NoSession, error |-> error]

\* The sandboxes prop of the CliDashboard: its length and whether one entry is a
\* 'CLI Dashboard' sandbox (what findOrCreateCliSandbox looks for).
SandboxLists ==
    {l \in [length : 0..MaxListLength, hasCli : BOOLEAN] : l.hasCli => l.length >= 1}

NoSandboxes == [length |-> 0, hasCli |-> FALSE]

\* What the functions of one render of the CliDashboard see.
Closure(initialized, creating, connecting, session, list) ==
    [isInitialized |-> initialized, isCreatingSandbox |-> creating,
     isConnectingTerminal |-> connecting, terminalSession |-> session, sandboxes |-> list]

\* The stored API key and error of the Dashboard: null, or a string.
NoKey == <<"null">>
NoApiError == [kind |-> "null", detail |-> <<>>]
InvalidApiKeyMessage == [kind |-> "Invalid API key", detail |-> <<>>]
ApiErrorMessage(m) == [kind |-> "message", detail |-> m]

\* The file browser: paths as sequences of segments (<<>> is '/'), and the
\* listing client.fs.readdir resolves to for a path.
Paths == {<<>>, <<"project">>, <<"project", "workspace">>, <<"project", "src">>}
NoFiles == [entriesOf |-> <<"[]">>]
readdir(path) == [entriesOf |-> path]

VARIABLES
    \* useCodeSandbox state
    activeSandbox,     \* useState: SandboxWithClient | null
    connectionError,   \* useState: string | null
    rendered,          \* the activeSandbox value captured by the callbacks of the last render
    \* the calls of connectToSandbox / createAndConnect
    nCalls,            \* calls made so far
    kind,              \* "connect" | "createAndConnect"
    info,              \* the sandboxInfo of the call
    pc,                \* where the call is suspended
    resumeCalls, resumeDone, createCalls, createDone, openCalls,
    initialSession,
    cancelled,         \* calls that were in flight when disconnectFromSandbox ran
    \* platform
    created,           \* sessions created in each call
    \* transport
    clientState,       \* "none" | "open" | "closed"
    disconnectCount,   \* client.disconnect() invocations
    disconnectCalls,   \* disconnectFromSandbox invocations
    disconnectErrors,  \* errors of client.disconnect() that disconnectFromSandbox caught
    handedCount,       \* how often each session was handed to the transport
    nGetSession,       \* getSession invocations of all clients
    supPc,             \* the getSession invocation in flight of each client
    supInvoked, supResumeCalls, supCreateCalls, supReturned, supRejected,
    supResumeRejected, \* the invocations whose resume call rejected
    supThrown,         \* what the platform call of the client's last getSession
                       \* invocation rejected with
    supResult,         \* how the promise of that invocation settled
    \* document
    listeners,         \* clients whose visibilitychange listener is registered
    notifyCount,       \* notify calls per client
    notifiedVisible,   \* notify(true) calls per client
    visibilityState,
    nEvents,
    laterEvents,       \* calls that had failed, or whose client was disconnected, when
                       \* a visibilitychange event fired
    \* options of connectToBrowserSandbox
    focusOption,       \* options?.onFocusChange of the call: "none" | "custom"
    receivedCustom,    \* clients for which the transport called the caller's own
                       \* registration function
    \* CliDashboard
    mounted,           \* the component is mounted
    isInitialized, isCreatingSandbox, isConnectingTerminal,   \* useState
    terminalSession,   \* useState: the initialization whose session is stored, 0 is null
    sandboxes,         \* the sandboxes prop
    effectClosure,     \* the render whose values the auto-init effect and its cleanup hold
    nInits,            \* initializeTerminal invocations
    initPc,            \* where each invocation is suspended
    terminalsCreated,  \* terminal sessions created since the mount
    nListChanges,      \* changes of the sandboxes prop
    \* Dashboard (App.tsx): the API key
    apiKey,            \* useState: string | null
    apiError,          \* useState: string | null
    nSubmits,          \* handleApiKeySubmit invocations
    submitKey,         \* the key of each invocation
    submitPc,          \* "idle" | "validating" | "stored" | "failed"
    \* SandboxManager: the terminal
    managerMounted,    \* a SandboxManager instance is mounted
    managerSeen,       \* the sandboxWithClient prop of its last commit
    mountCount,        \* SandboxManager instances mounted so far
    xtermRef,          \* xtermRef.current of the mounted instance: 0 is null
    nTermInits,        \* initTerminal invocations
    termPc,            \* "idle" | "creating" | "opening" | "done" | "failed"
    termClient,        \* the client of each invocation
    termMount,         \* the instance whose effect made the invocation
    remoteTerminals,   \* client.terminals.create() calls that resolved, per client
    xterms,            \* xterm instances constructed, per client
    \* SandboxManager: the file browser
    activeTab,         \* useState: "terminal" | "files"
    currentPath,       \* useState: the path as its segments
    files,             \* useState: the listing displayed
    isLoadingFiles,    \* useState
    nLoads,            \* loadFiles invocations
    loadPath,          \* the path of each invocation
    loadPc             \* "idle" | "pending" | "done" | "failed"

hookVars == <<activeSandbox, connectionError, rendered>>
callVars == <<nCalls, kind, info, pc, resumeCalls, resumeDone,
              createCalls, createDone, openCalls, initialSession, cancelled>>
platformVars == <<created>>
clientVars == <<clientState, disconnectCount>>
teardownVars == <<disconnectCalls, disconnectErrors>>
supplierVars == <<nGetSession, supPc, supInvoked, supResumeCalls, supCreateCalls, supReturned, supRejected,
                  supResumeRejected>>
documentVars == <<listeners, notifyCount, notifiedVisible, visibilityState, nEvents,
                  laterEvents>>
optionVars == <<focusOption, receivedCustom>>
resultVars == <<supThrown, supResult>>
connectionVars == <<hookVars, callVars, platformVars, clientVars, teardownVars, handedCount,
                    supplierVars, documentVars, optionVars, resultVars>>
cliVars == <<mounted, isInitialized, isCreatingSandbox, isConnectingTerminal, terminalSession,
             sandboxes, effectClosure, nInits, initPc, terminalsCreated, nListChanges>>
appVars == <<apiKey, apiError, nSubmits, submitKey, submitPc>>
termVars == <<managerMounted, managerSeen, mountCount, xtermRef, nTermInits, termPc,
              termClient, termMount, remoteTerminals, xterms>>
fileVars == <<activeTab, currentPath, files, isLoadingFiles, nLoads, loadPath, loadPc>>
componentVars == <<cliVars, appVars, termVars, fileVars>>
vars == <<connectionVars, componentVars>>

Init ==
    /\ activeSandbox = NullActive
    /\ connectionError = NoError
    /\ rendered = NullActive
    /\ nCalls = 0
    /\ kind = [k \in Calls |-> "none"]
    /\ info = [k \in Calls |-> NoSandbox]
    /\ pc = [k \in Calls |-> "idle"]
    /\ resumeCalls = [k \in Calls |-> 0]
    /\ resumeDone = [k \in Calls |-> 0]
    /\ createCalls = [k \in Calls |-> 0]
    /\ createDone = [k \in Calls |-> 0]
    /\ openCalls = [k \in Calls |-> 0]
    /\ initialSession = [k \in Calls |-> NoSession]
    /\ cancelled = {}
    /\ created = [k \in Calls |-> 0]
    /\ clientState = [k \in Calls |-> "none"]
    /\ disconnectCount = [k \in Calls |-> 0]
    /\ disconnectCalls = 0
    /\ disconnectErrors = 0
    /\ handedCount = [s \in Sessions |-> 0]
    /\ nGetSession = 0
    /\ supPc = [k \in Calls |-> "idle"]
    /\ supInvoked = [k \in Calls |-> 0]
    /\ supResumeCalls = [k \in Calls |-> 0]
    /\ supCreateCalls = [k \in Calls |-> 0]
    /\ supReturned = [k \in Calls |-> 0]
    /\ supRejected = [k \in Calls |-> 0]
    /\ supResumeRejected = [k \in Calls |-> 0]
    /\ supThrown = [k \in Calls |-> NotThrown]
    /\ supResult = [k \in Calls |-> NoResult]
    /\ listeners = {}
    /\ notifyCount = [k \in Calls |-> 0]
    /\ notifiedVisible = [k \in Calls |-> 0]
    /\ visibilityState = "visible"
    /\ nEvents = 0
    /\ laterEvents = {}
    /\ focusOption = [k \in Calls |-> "none"]
    /\ receivedCustom = {}
    /\ mounted = FALSE
    /\ isInitialized = FALSE
    /\ isCreatingSandbox = FALSE
    /\ isConnectingTerminal = FALSE
    /\ terminalSession = 0
    /\ sandboxes = NoSandboxes
    /\ effectClosure = Closure(FALSE, FALSE, FALSE, 0, NoSandboxes)
    /\ nInits = 0
    /\ initPc = [i \in Inits |-> "idle"]
    /\ terminalsCreated = 0
    /\ nListChanges = 0
    /\ apiKey = NoKey
    /\ apiError = NoApiError
    /\ nSubmits = 0
    /\ submitKey = [j \in Submits |-> NoKey]
    /\ submitPc = [j \in Submits |-> "idle"]
    /\ managerMounted = FALSE
    /\ managerSeen = NullActive
    /\ mountCount = 0
    /\ xtermRef = 0
    /\ nTermInits = 0
    /\ termPc = [t \in TermInits |-> "idle"]
    /\ termClient = [t \in TermInits |-> 0]
    /\ termMount = [t \in TermInits |-> 0]
    /\ remoteTerminals = [k \in Calls |-> 0]
    /\ xterms = [k \in Calls |-> 0]
    /\ activeTab = "terminal"
    /\ currentPath = <<"project", "workspace">>
    /\ files = NoFiles
    /\ isLoadingFiles = FALSE
    /\ nLoads = 0
    /\ loadPath = [l \in Loads |-> <<>>]
    /\ loadPc = [l \in Loads |-> "idle"]


\* ------------------------------------------------------------ pure helpers
\* The catch block of connectToSandbox: the message chosen from the error.
errorMessage(error) ==
    IF error.isError
    THEN IF Includes(error.message, "WebSocket") THEN WebSocketMessage
         ELSE IF Includes(error.message, "session") THEN SessionMessage
         ELSE ConnectionFailedMessage(error.message)
    ELSE DefaultConnectMessage

\* The catch block of createAndConnect.
createErrorMessage(error) ==
    IF error.isError THEN CreateFailedMessage(error.message) ELSE DefaultCreateMessage

\* The message the catch block of call k sets.
CatchMessage(k, error) ==
    IF kind[k] = "connect" THEN errorMessage(error) ELSE createErrorMessage(error)

\* sandbox.createSession() of the platform in call k: a new session every time.
createSession(k) == <<k, created[k] + 1>>

\* What sdk.sandboxes.resume(id) can resolve to: the handle without listing
\* metadata, or a handle that carries values of the platform's own.
resume(id) ==
    { [id |-> id, title |-> NoTitle, privacy |-> Undefined,
       createdAt |-> Undefined, updatedAt |-> Undefined, tags |-> Undefined],
      [id |-> id, title |-> "Untitled", privacy |-> "private",
       createdAt |-> "2023-12-31", updatedAt |-> "2024-03-03", tags |-> "platform"] }

\* What sdk.sandboxes.create resolves to in createAndConnect.
create(id) ==
    [id |-> id, title |-> "Browser SDK Test Sandbox", privacy |-> "unlisted",
     createdAt |-> "2024-04-04", updatedAt |-> "2024-04-04", tags |-> Undefined]

\* Mutant of sandboxWithMetadata: only the title is copied from the listing.
sandboxWithTitleOnly(sandbox, sandboxInfo) ==
    [sandbox EXCEPT !.title = sandboxInfo.title]

\* connectToSandbox overlays the listing metadata of sandboxInfo on the handle
\* the resume call resolved to.
sandboxWithMetadata(sandbox, sandboxInfo) ==
    [sandbox EXCEPT !.title = sandboxInfo.title,
                    !.privacy = sandboxInfo.privacy,
                    !.createdAt = sandboxInfo.createdAt,
                    !.updatedAt = sandboxInfo.updatedAt,
                    !.tags = sandboxInfo.tags]

\* The sandbox records the call can store as active: connectToSandbox stores the
\* resumed handle with the overlay, createAndConnect the created sandbox.
StoredSandboxes(k) ==
    IF kind[k] = "connect"
    THEN {sandboxWithMetadata(sandbox, info[k]) : sandbox \in resume(info[k].id)}
    ELSE {info[k]}

\* Mutant of removeVisibilityListener: removeEventListener is given another
\* function object than the one that was added, so nothing is removed.
removeOtherListener(k, registered) == registered

\* The default onFocusChange handler: the registration and the function it returns.
onFocusChange(k, registered) == registered \cup {k}
removeVisibilityListener(k, registered) == registered \ {k}

\* Mutant of focusHandler: the option of the caller is ignored.
focusHandlerAlwaysDefault(option) == "default"

\* options?.onFocusChange || (the default handler): the registration function
\* connectToBrowserSandbox passes to the transport.
focusHandler(option) == IF option = "custom" THEN "custom" ELSE "default"

\* The transport opens client k and calls the registration function it was
\* given with its notify: the default handler adds the document's listener, the
\* caller's own function is the caller's business.
RegisterFocus(k) ==
    IF focusHandler(focusOption[k]) = "default"
    THEN /\ listeners' = onFocusChange(k, listeners)
         /\ UNCHANGED receivedCustom
    ELSE /\ receivedCustom' = receivedCustom \cup {k}
         /\ UNCHANGED listeners

\* How a call of client.disconnect() ends: it returns, or it raises an error
\* (a client in an error state may), after or before the transport was released.
DisconnectOutcomes == {"returns", "throwsAfterRelease", "throwsBeforeRelease"}
Throws(outcome) == outcome # "returns"

\* client.disconnect() of the transport on client c, as called by the hook: the
\* transport is released, which includes the call of the function onFocusChange
\* returned to it; a call that raises before the release leaves the client as
\* it was.
ClientDisconnect(c, outcome) ==
    /\ disconnectCount[c] < MaxDisconnects
    /\ disconnectCount' = [disconnectCount EXCEPT ![c] = @ + 1]
    /\ IF outcome = "throwsBeforeRelease"
       THEN UNCHANGED <<clientState, listeners>>
       ELSE /\ clientState' = [clientState EXCEPT ![c] = "closed"]
            /\ listeners' = removeVisibilityListener(c, listeners)

\* Mutant of getSessionResult: getSession answers with the initial session.
getSessionCached(k) == initialSession[k]

\* The session the getSession callback returns.
getSessionResult(k) == createSession(k)

InFlight(k) == pc[k] \in {"create", "resume", "session", "open"}

\* Mutant of ConnectToSandbox: the session of an earlier call for the same sandbox
\* is kept and passed to the transport again, without resume and createSession.
ConnectToSandboxReusingSession(sandboxInfo) ==
    /\ nCalls < MaxCalls
    /\ nCalls' = nCalls + 1
    /\ kind' = [kind EXCEPT ![nCalls + 1] = "connect"]
    /\ info' = [info EXCEPT ![nCalls + 1] = sandboxInfo]
    /\ connectionError' = NoError
    /\ activeSandbox' = ConnectingPlaceholder
    /\ IF \E j \in 1..nCalls : info[j].id = sandboxInfo.id /\ initialSession[j] # NoSession
       THEN LET j == CHOOSE j \in 1..nCalls :
                        info[j].id = sandboxInfo.id /\ initialSession[j] # NoSession
            IN /\ pc' = [pc EXCEPT ![nCalls + 1] = "open"]
               /\ initialSession' = [initialSession EXCEPT ![nCalls + 1] = initialSession[j]]
               /\ openCalls' = [openCalls EXCEPT ![nCalls + 1] = @ + 1]
               /\ handedCount' = [handedCount EXCEPT ![initialSession[j]] = @ + 1]
               /\ UNCHANGED resumeCalls
       ELSE /\ pc' = [pc EXCEPT ![nCalls + 1] = "resume"]
            /\ resumeCalls' = [resumeCalls EXCEPT ![nCalls + 1] = @ + 1]
            /\ UNCHANGED <<initialSession, openCalls, handedCount>>
    /\ UNCHANGED <<resumeDone, createCalls, createDone, cancelled>>
    /\ UNCHANGED <<platformVars, clientVars, supplierVars, documentVars>>
    /\ UNCHANGED teardownVars
    /\ UNCHANGED optionVars
    /\ UNCHANGED resultVars
    /\ UNCHANGED componentVars

\* ------------------------------------------------------------ hook: calls
\* connectToSandbox(sandboxInfo) up to its first await: the state is reset to
\* Connecting and connectToBrowserSandbox issues the resume call.  (The three
\* functions the hook returns leave `rendered` to the step that calls them.)
ConnectToSandbox(sandboxInfo) ==
    /\ nCalls < MaxCalls
    /\ nCalls' = nCalls + 1
    /\ kind' = [kind EXCEPT ![nCalls + 1] = "connect"]
    /\ info' = [info EXCEPT ![nCalls + 1] = sandboxInfo]
    /\ pc' = [pc EXCEPT ![nCalls + 1] = "resume"]
    /\ resumeCalls' = [resumeCalls EXCEPT ![nCalls + 1] = @ + 1]
    /\ connectionError' = NoError
    /\ activeSandbox' = ConnectingPlaceholder
    /\ UNCHANGED <<resumeDone, createCalls, createDone, openCalls,
                   initialSession, cancelled>>
    /\ UNCHANGED <<platformVars, clientVars, handedCount, supplierVars, documentVars>>
    /\ UNCHANGED teardownVars
    /\ UNCHANGED optionVars
    /\ UNCHANGED resultVars
    /\ UNCHANGED componentVars

\* createAndConnect(params) up to its first await: sdk.sandboxes.create is issued.
CreateAndConnect ==
    /\ nCalls < MaxCalls
    /\ nCalls' = nCalls + 1
    /\ kind' = [kind EXCEPT ![nCalls + 1] = "createAndConnect"]
    /\ pc' = [pc EXCEPT ![nCalls + 1] = "create"]
    /\ connectionError' = NoError
    /\ activeSandbox' = ConnectingPlaceholder
    /\ UNCHANGED <<info, resumeCalls, resumeDone, createCalls, createDone,
                   openCalls, initialSession, cancelled>>
    /\ UNCHANGED <<platformVars, clientVars, handedCount, supplierVars, documentVars>>
    /\ UNCHANGED teardownVars
    /\ UNCHANGED optionVars
    /\ UNCHANGED resultVars
    /\ UNCHANGED componentVars

\* The catch block of the call: the error message is set, the active sandbox is
\* cleared and the error is rethrown.  A call of connectToBrowserSandbox made
\* without the hook has no catch block: the rejection goes to its caller.
Catch(k, error) ==
    /\ IF kind[k] = "direct"
       THEN UNCHANGED <<activeSandbox, connectionError>>
       ELSE /\ connectionError' = CatchMessage(k, error)
            /\ activeSandbox' = NullActive
    /\ pc' = [pc EXCEPT ![k] = "failed"]
    /\ UNCHANGED <<rendered, nCalls, kind, info, resumeCalls, resumeDone, createCalls,
                   createDone, openCalls, initialSession, cancelled>>
    /\ UNCHANGED <<platformVars, clientVars, handedCount, supplierVars, documentVars>>
    /\ UNCHANGED teardownVars
    /\ UNCHANGED optionVars
    /\ UNCHANGED resultVars
    /\ UNCHANGED componentVars

\* sdk.sandboxes.create resolves in createAndConnect: the list is invalidated and
\* connectToBrowserSandbox issues the resume call for the new sandbox.
SandboxCreateOk(k, id) ==
    /\ pc[k] = "create"
    /\ info' = [info EXCEPT ![k] = create(id)]
    /\ pc' = [pc EXCEPT ![k] = "resume"]
    /\ resumeCalls' = [resumeCalls EXCEPT ![k] = @ + 1]
    /\ UNCHANGED <<hookVars, nCalls, kind, resumeDone, createCalls, createDone,
                   openCalls, initialSession, cancelled>>
    /\ UNCHANGED <<platformVars, clientVars, handedCount, supplierVars, documentVars>>
    /\ UNCHANGED teardownVars
    /\ UNCHANGED optionVars
    /\ UNCHANGED resultVars
    /\ UNCHANGED componentVars

SandboxCreateFail(k, error) ==
    /\ pc[k] = "create"
    /\ Catch(k, error)

\* ------------------------------------------- connectToBrowserSandbox steps
\* Mutant of ResumeOk: createSession() is not awaited, the transport open is
\* called while the session creation is still pending.
ResumeOkWithoutAwait(k) ==
    /\ pc[k] = "resume"
    /\ resumeDone' = [resumeDone EXCEPT ![k] = @ + 1]
    /\ createCalls' = [createCalls EXCEPT ![k] = @ + 1]
    /\ openCalls' = [openCalls EXCEPT ![k] = @ + 1]
    /\ pc' = [pc EXCEPT ![k] = "open"]
    /\ UNCHANGED <<hookVars, nCalls, kind, info, resumeCalls, createDone,
                   initialSession, cancelled>>
    /\ UNCHANGED <<platformVars, clientVars, handedCount, supplierVars, documentVars>>
    /\ UNCHANGED teardownVars
    /\ UNCHANGED optionVars
    /\ UNCHANGED resultVars
    /\ UNCHANGED componentVars

\* sdk.sandboxes.resume resolves: sandbox.createSession() is issued.
ResumeOk(k) ==
    /\ pc[k] = "resume"
    /\ resumeDone' = [resumeDone EXCEPT ![k] = @ + 1]
    /\ createCalls' = [createCalls EXCEPT ![k] = @ + 1]
    /\ pc' = [pc EXCEPT ![k] = "session"]
    /\ UNCHANGED <<hookVars, nCalls, kind, info, resumeCalls, createDone, openCalls,
                   initialSession, cancelled>>
    /\ UNCHANGED <<platformVars, clientVars, handedCount, supplierVars, documentVars>>
    /\ UNCHANGED teardownVars
    /\ UNCHANGED optionVars
    /\ UNCHANGED resultVars
    /\ UNCHANGED componentVars

\* sdk.sandboxes.resume rejects: nothing of connectToBrowserSandbox runs further.
ResumeFail(k, error) ==
    /\ pc[k] = "resume"
    /\ Catch(k, error)

\* Mutant of CreateSessionOk: the visibility listener is added by
\* connectToBrowserSandbox itself, before the transport open is awaited.
CreateSessionOkAddingListener(k) ==
    /\ pc[k] = "session"
    /\ createDone' = [createDone EXCEPT ![k] = @ + 1]
    /\ created' = [created EXCEPT ![k] = @ + 1]
    /\ initialSession' = [initialSession EXCEPT ![k] = createSession(k)]
    /\ openCalls' = [openCalls EXCEPT ![k] = @ + 1]
    /\ handedCount' = [handedCount EXCEPT ![createSession(k)] = @ + 1]
    /\ pc' = [pc EXCEPT ![k] = "open"]
    /\ listeners' = onFocusChange(k, listeners)
    /\ UNCHANGED <<hookVars, nCalls, kind, info, resumeCalls, resumeDone, createCalls,
                   cancelled>>
    /\ UNCHANGED <<clientVars, supplierVars, notifyCount, notifiedVisible,
                   visibilityState, nEvents, laterEvents>>
    /\ UNCHANGED teardownVars
    /\ UNCHANGED optionVars
    /\ UNCHANGED resultVars
    /\ UNCHANGED componentVars

\* sandbox.createSession() resolves: the transport open is called with the initial
\* session, the getSession callback and the onFocusChange handler.
CreateSessionOk(k) ==
    /\ pc[k] = "session"
    /\ createDone' = [createDone EXCEPT ![k] = @ + 1]
    /\ created' = [created EXCEPT ![k] = @ + 1]
    /\ initialSession' = [initialSession EXCEPT ![k] = createSession(k)]
    /\ openCalls' = [openCalls EXCEPT ![k] = @ + 1]
    /\ handedCount' = [handedCount EXCEPT ![createSession(k)] = @ + 1]
    /\ pc' = [pc EXCEPT ![k] = "open"]
    /\ UNCHANGED <<hookVars, nCalls, kind, info, resumeCalls, resumeDone, createCalls,
                   cancelled>>
    /\ UNCHANGED <<clientVars, supplierVars, documentVars>>
    /\ UNCHANGED teardownVars
    /\ UNCHANGED optionVars
    /\ UNCHANGED resultVars
    /\ UNCHANGED componentVars

CreateSessionFail(k, error) ==
    /\ pc[k] = "session"
    /\ Catch(k, error)

\* Mutant of OpenOk: the client is returned without setActiveSandbox, the state
\* stays at the connecting placeholder.
OpenOkWithoutStore(k) ==
    /\ pc[k] = "open"
    /\ clientState' = [clientState EXCEPT ![k] = "open"]
    /\ RegisterFocus(k)
    /\ pc' = [pc EXCEPT ![k] = "done"]
    /\ UNCHANGED focusOption
    /\ UNCHANGED <<hookVars, nCalls, kind, info, resumeCalls,
                   resumeDone, createCalls, createDone, openCalls, initialSession,
                   cancelled>>
    /\ UNCHANGED <<platformVars, disconnectCount, handedCount, supplierVars, notifyCount,
                   notifiedVisible, visibilityState, nEvents, laterEvents>>
    /\ UNCHANGED teardownVars
    /\ UNCHANGED resultVars
    /\ UNCHANGED componentVars

\* The transport open resolves with the client: the transport has called
\* the registration function with its notify; the call of the hook stores the
\* connected record and returns, a direct call returns the client to its caller.
OpenOk(k) ==
    /\ pc[k] = "open"
    /\ clientState' = [clientState EXCEPT ![k] = "open"]
    /\ RegisterFocus(k)
    /\ IF kind[k] = "direct"
       THEN UNCHANGED activeSandbox
       ELSE \E sandbox \in StoredSandboxes(k) :
                activeSandbox' = SandboxWithClient(sandbox, k, FALSE)
    /\ pc' = [pc EXCEPT ![k] = "done"]
    /\ UNCHANGED focusOption
    /\ UNCHANGED <<connectionError, rendered, nCalls, kind, info, resumeCalls,
                   resumeDone, createCalls, createDone, openCalls, initialSession,
                   cancelled>>
    /\ UNCHANGED <<platformVars, disconnectCount, handedCount, supplierVars, notifyCount,
                   notifiedVisible, visibilityState, nEvents, laterEvents>>
    /\ UNCHANGED teardownVars
    /\ UNCHANGED resultVars
    /\ UNCHANGED componentVars

\* The transport open rejects: no client exists and no handler stays registered.
OpenFail(k, error) ==
    /\ pc[k] = "open"
    /\ Catch(k, error)

\* ------------------------------------------------- hook: teardown, render
\* Mutant of DisconnectFromSandbox: the two state resets are inside the try block,
\* after client.disconnect(), so an error it raises skips them.
DisconnectFromSandboxResetInsideTry(outcome) ==
    /\ disconnectCalls < MaxDisconnects
    /\ disconnectCalls' = disconnectCalls + 1
    /\ IF rendered.client # 0
       THEN /\ ClientDisconnect(rendered.client, outcome)
            /\ disconnectErrors' = IF Throws(outcome) THEN disconnectErrors + 1
                                   ELSE disconnectErrors
       ELSE UNCHANGED <<clientVars, listeners, disconnectErrors>>
    /\ IF rendered.client # 0 /\ Throws(outcome)
       THEN UNCHANGED <<activeSandbox, connectionError>>
       ELSE activeSandbox' = NullActive /\ connectionError' = NoError
    /\ cancelled' = cancelled \cup {k \in Calls : InFlight(k)}
    /\ UNCHANGED <<nCalls, kind, info, pc, resumeCalls, resumeDone,
                   createCalls, createDone, openCalls, initialSession>>
    /\ UNCHANGED <<platformVars, handedCount, supplierVars, notifyCount,
                   notifiedVisible, visibilityState, nEvents, laterEvents>>
    /\ UNCHANGED optionVars
    /\ UNCHANGED resultVars
    /\ UNCHANGED componentVars

\* Mutant of DisconnectFromSandbox: setConnectionError(null) is missing.
DisconnectFromSandboxKeepingError(outcome) ==
    /\ disconnectCalls < MaxDisconnects
    /\ disconnectCalls' = disconnectCalls + 1
    /\ IF rendered.client # 0
       THEN /\ ClientDisconnect(rendered.client, outcome)
            /\ disconnectErrors' = IF Throws(outcome) THEN disconnectErrors + 1
                                   ELSE disconnectErrors
       ELSE UNCHANGED <<clientVars, listeners, disconnectErrors>>
    /\ activeSandbox' = NullActive
    /\ cancelled' = cancelled \cup {k \in Calls : InFlight(k)}
    /\ UNCHANGED <<connectionError, nCalls, kind, info, pc, resumeCalls, resumeDone,
                   createCalls, createDone, openCalls, initialSession>>
    /\ UNCHANGED <<platformVars, handedCount, supplierVars, notifyCount,
                   notifiedVisible, visibilityState, nEvents, laterEvents>>
    /\ UNCHANGED optionVars
    /\ UNCHANGED resultVars
    /\ UNCHANGED componentVars

\* disconnectFromSandbox, a callback of the last render: it reads the
\* activeSandbox that render captured.  An error client.disconnect() raises is
\* caught and logged, and the state is reset all the same.
DisconnectFromSandbox(outcome) ==
    /\ disconnectCalls < MaxDisconnects
    /\ disconnectCalls' = disconnectCalls + 1
    /\ IF rendered.client # 0
       THEN /\ ClientDisconnect(rendered.client, outcome)
            /\ disconnectErrors' = IF Throws(outcome) THEN disconnectErrors + 1
                                   ELSE disconnectErrors
       ELSE UNCHANGED <<clientVars, listeners, disconnectErrors>>
    /\ activeSandbox' = NullActive
    /\ connectionError' = NoError
    /\ cancelled' = cancelled \cup {k \in Calls : InFlight(k)}
    /\ UNCHANGED <<nCalls, kind, info, pc, resumeCalls, resumeDone,
                   createCalls, createDone, openCalls, initialSession>>
    /\ UNCHANGED <<platformVars, handedCount, supplierVars, notifyCount,
                   notifiedVisible, visibilityState, nEvents, laterEvents>>
    /\ UNCHANGED optionVars
    /\ UNCHANGED resultVars
    /\ UNCHANGED componentVars

\* handleConnectionError, the 'codesandbox-connection-error' listener registered
\* by the effect of the last render.  An error client.disconnect() raises is
\* caught and logged.
HandleConnectionError(outcome) ==
    /\ IF ~rendered.isNull
       THEN /\ connectionError' = ConnectionLostMessage
            /\ IF rendered.client # 0
               THEN ClientDisconnect(rendered.client, outcome)
               ELSE UNCHANGED <<clientVars, listeners>>
            /\ activeSandbox' = NullActive
       ELSE UNCHANGED <<activeSandbox, connectionError, clientVars, listeners>>
    /\ UNCHANGED <<rendered, callVars, platformVars, handedCount, supplierVars,
                   notifyCount, notifiedVisible, visibilityState, nEvents, laterEvents>>
    /\ UNCHANGED teardownVars
    /\ UNCHANGED optionVars
    /\ UNCHANGED resultVars
    /\ UNCHANGED componentVars

\* React renders the hook again after a state update: the callbacks and the
\* effect capture the current activeSandbox.
Render ==
    /\ rendered # activeSandbox
    /\ rendered' = activeSandbox
    /\ UNCHANGED <<activeSandbox, connectionError, callVars, platformVars, clientVars,
                   handedCount, supplierVars, documentVars>>
    /\ UNCHANGED teardownVars
    /\ UNCHANGED optionVars
    /\ UNCHANGED resultVars
    /\ UNCHANGED componentVars

\* ------------------------------------------------- getSession (supplier)
\* Mutant of GetSession: the callback shows the reconnect to the caller by storing
\* the connecting placeholder, and nothing stores the connected record again.
GetSessionShowingReconnecting(k) ==
    /\ clientState[k] = "open"
    /\ supPc[k] = "idle"
    /\ nGetSession < MaxSupplier
    /\ nGetSession' = nGetSession + 1
    /\ supInvoked' = [supInvoked EXCEPT ![k] = @ + 1]
    /\ supResumeCalls' = [supResumeCalls EXCEPT ![k] = @ + 1]
    /\ supPc' = [supPc EXCEPT ![k] = "resume"]
    /\ supThrown' = [supThrown EXCEPT ![k] = NotThrown]
    /\ supResult' = [supResult EXCEPT ![k] = Pending]
    /\ activeSandbox' = ConnectingPlaceholder
    /\ UNCHANGED <<connectionError, rendered, callVars, platformVars, clientVars,
                   handedCount, supCreateCalls, supReturned, supRejected,
                   supResumeRejected, documentVars>>
    /\ UNCHANGED teardownVars
    /\ UNCHANGED optionVars
    /\ UNCHANGED componentVars

\* The transport calls getSession(id) of an open client (one invocation at a time
\* per client): the callback issues the resume call.
GetSession(k) ==
    /\ clientState[k] = "open"
    /\ supPc[k] = "idle"
    /\ nGetSession < MaxSupplier
    /\ nGetSession' = nGetSession + 1
    /\ supInvoked' = [supInvoked EXCEPT ![k] = @ + 1]
    /\ supResumeCalls' = [supResumeCalls EXCEPT ![k] = @ + 1]
    /\ supPc' = [supPc EXCEPT ![k] = "resume"]
    /\ supThrown' = [supThrown EXCEPT ![k] = NotThrown]
    /\ supResult' = [supResult EXCEPT ![k] = Pending]
    /\ UNCHANGED <<hookVars, callVars, platformVars, clientVars, handedCount,
                   supCreateCalls, supReturned, supRejected, supResumeRejected,
                   documentVars>>
    /\ UNCHANGED teardownVars
    /\ UNCHANGED optionVars
    /\ UNCHANGED componentVars

\* Mutant of GetSessionResumeOk: getSession answers with the session it holds
\* instead of creating one.
GetSessionResumeOkWithoutCreate(k) ==
    /\ supPc[k] = "resume"
    /\ handedCount' = [handedCount EXCEPT ![initialSession[k]] = @ + 1]
    /\ supReturned' = [supReturned EXCEPT ![k] = @ + 1]
    /\ supPc' = [supPc EXCEPT ![k] = "idle"]
    /\ supResult' = [supResult EXCEPT ![k] = Resolved(initialSession[k])]
    /\ UNCHANGED supThrown
    /\ UNCHANGED <<hookVars, callVars, platformVars, clientVars, nGetSession, supInvoked,
                   supResumeCalls, supCreateCalls, supRejected, supResumeRejected,
                   documentVars>>
    /\ UNCHANGED teardownVars
    /\ UNCHANGED optionVars
    /\ UNCHANGED componentVars

\* The resume call of getSession resolves: createSession is issued.
GetSessionResumeOk(k) ==
    /\ supPc[k] = "resume"
    /\ supCreateCalls' = [supCreateCalls EXCEPT ![k] = @ + 1]
    /\ supPc' = [supPc EXCEPT ![k] = "session"]
    /\ UNCHANGED <<hookVars, callVars, platformVars, clientVars, handedCount, nGetSession,
                   supInvoked, supResumeCalls, supReturned, supRejected,
                   supResumeRejected, documentVars>>
    /\ UNCHANGED teardownVars
    /\ UNCHANGED optionVars
    /\ UNCHANGED resultVars
    /\ UNCHANGED componentVars

\* Mutant of GetSessionResumeFail: the catch block logs the error and returns, so
\* the promise resolves with undefined.
GetSessionResumeFailResolvingUndefined(k, error) ==
    /\ supPc[k] = "resume"
    /\ supRejected' = [supRejected EXCEPT ![k] = @ + 1]
    /\ supResumeRejected' = [supResumeRejected EXCEPT ![k] = @ + 1]
    /\ supPc' = [supPc EXCEPT ![k] = "idle"]
    /\ supThrown' = [supThrown EXCEPT ![k] = error]
    /\ supResult' = [supResult EXCEPT ![k] = Resolved(NoSession)]
    /\ UNCHANGED <<hookVars, callVars, platformVars, clientVars, handedCount, nGetSession,
                   supInvoked, supResumeCalls, supCreateCalls, supReturned, documentVars>>
    /\ UNCHANGED teardownVars
    /\ UNCHANGED optionVars
    /\ UNCHANGED componentVars

\* The resume call of getSession rejects: the catch block logs and rethrows.
GetSessionResumeFail(k, error) ==
    /\ supPc[k] = "resume"
    /\ supRejected' = [supRejected EXCEPT ![k] = @ + 1]
    /\ supResumeRejected' = [supResumeRejected EXCEPT ![k] = @ + 1]
    /\ supPc' = [supPc EXCEPT ![k] = "idle"]
    /\ supThrown' = [supThrown EXCEPT ![k] = error]
    /\ supResult' = [supResult EXCEPT ![k] = Rejected(error)]
    /\ UNCHANGED <<hookVars, callVars, platformVars, clientVars, handedCount, nGetSession,
                   supInvoked, supResumeCalls, supCreateCalls, supReturned, documentVars>>
    /\ UNCHANGED teardownVars
    /\ UNCHANGED optionVars
    /\ UNCHANGED componentVars

\* createSession of getSession resolves: the new session is returned to the transport.
GetSessionCreateOk(k) ==
    /\ supPc[k] = "session"
    /\ created' = [created EXCEPT ![k] = @ + 1]
    /\ handedCount' = [handedCount EXCEPT ![getSessionResult(k)] = @ + 1]
    /\ supReturned' = [supReturned EXCEPT ![k] = @ + 1]
    /\ supPc' = [supPc EXCEPT ![k] = "idle"]
    /\ supResult' = [supResult EXCEPT ![k] = Resolved(getSessionResult(k))]
    /\ UNCHANGED supThrown
    /\ UNCHANGED <<hookVars, callVars, clientVars, nGetSession, supInvoked,
                   supResumeCalls, supCreateCalls, supRejected, supResumeRejected,
                   documentVars>>
    /\ UNCHANGED teardownVars
    /\ UNCHANGED optionVars
    /\ UNCHANGED componentVars

\* Mutant of GetSessionCreateFail: the catch block of getSession reports the lost
\* connection to the hook: it sets the connection error and clears the active sandbox.
GetSessionCreateFailReportingLoss(k, error) ==
    /\ supPc[k] = "session"
    /\ supRejected' = [supRejected EXCEPT ![k] = @ + 1]
    /\ connectionError' = ConnectionLostMessage
    /\ activeSandbox' = NullActive
    /\ supPc' = [supPc EXCEPT ![k] = "idle"]
    /\ supThrown' = [supThrown EXCEPT ![k] = error]
    /\ supResult' = [supResult EXCEPT ![k] = Rejected(error)]
    /\ UNCHANGED <<rendered, callVars, platformVars, clientVars, handedCount, nGetSession,
                   supInvoked, supResumeCalls, supCreateCalls, supReturned,
                   supResumeRejected, documentVars>>
    /\ UNCHANGED teardownVars
    /\ UNCHANGED optionVars
    /\ UNCHANGED componentVars

\* createSession of getSession rejects: the catch block logs and rethrows.
GetSessionCreateFail(k, error) ==
    /\ supPc[k] = "session"
    /\ supRejected' = [supRejected EXCEPT ![k] = @ + 1]
    /\ supPc' = [supPc EXCEPT ![k] = "idle"]
    /\ supThrown' = [supThrown EXCEPT ![k] = error]
    /\ supResult' = [supResult EXCEPT ![k] = Rejected(error)]
    /\ UNCHANGED <<hookVars, callVars, platformVars, clientVars, handedCount, nGetSession,
                   supInvoked, supResumeCalls, supCreateCalls, supReturned,
                   supResumeRejected, documentVars>>
    /\ UNCHANGED teardownVars
    /\ UNCHANGED optionVars
    /\ UNCHANGED componentVars

\* ------------------------------------------------------------- document
\* A visibilitychange event: every registered onVisibilityChange listener calls
\* its notify with (document.visibilityState === 'visible').
VisibilityChange ==
    /\ nEvents < MaxEvents
    /\ nEvents' = nEvents + 1
    /\ visibilityState' = IF visibilityState = "visible" THEN "hidden" ELSE "visible"
    /\ notifyCount' = [k \in Calls |-> IF k \in listeners THEN notifyCount[k] + 1
                                       ELSE notifyCount[k]]
    /\ notifiedVisible' = [k \in Calls |->
                              IF k \in listeners /\ visibilityState' = "visible"
                              THEN notifiedVisible[k] + 1 ELSE notifiedVisible[k]]
    /\ laterEvents' = laterEvents \cup
                        {k \in Calls : pc[k] = "failed" \/ clientState[k] = "closed"}
    /\ UNCHANGED <<hookVars, callVars, platformVars, clientVars, handedCount,
                   supplierVars, listeners>>
    /\ UNCHANGED teardownVars
    /\ UNCHANGED optionVars
    /\ UNCHANGED resultVars
    /\ UNCHANGED componentVars

\* -------------------------------------------------------- specifications
\* The calls of the hook and what settles them.
Settle ==
    \/ \E k \in Calls : SandboxCreateOk(k, NewSandboxId)
    \/ \E k \in Calls, error \in Thrown : SandboxCreateFail(k, error)
    \/ \E k \in Calls : ResumeOk(k)
    \/ \E k \in Calls, error \in Thrown : ResumeFail(k, error)
    \/ \E k \in Calls : CreateSessionOk(k)
    \/ \E k \in Calls, error \in Thrown : CreateSessionFail(k, error)
    \/ \E k \in Calls : OpenOk(k)
    \/ \E k \in Calls, error \in Thrown : OpenFail(k, error)

\* The hook as a library: its functions may be called in any state, also
\* several times from the callbacks of one render.
HookConnect(sandboxInfo) == ConnectToSandbox(sandboxInfo) /\ UNCHANGED rendered
HookCreateAndConnect == CreateAndConnect /\ UNCHANGED rendered
HookDisconnect(outcome) == DisconnectFromSandbox(outcome) /\ UNCHANGED rendered

Lifecycle ==
    \/ \E sandboxInfo \in SandboxInfos : HookConnect(sandboxInfo)
    \/ HookCreateAndConnect
    \/ \E outcome \in DisconnectOutcomes : HookDisconnect(outcome)
    \/ Settle
    \/ \E outcome \in DisconnectOutcomes : HandleConnectionError(outcome)
    \/ Render

\* What the remote calls of getSession reject with where the hook is the subject:
\* getSession hands the error to the transport alone, no state of the hook
\* depends on which error it is.
SupplierThrown == {[isError |-> TRUE, message |-> <<"Failed", "to", "create", "session">>]}

\* The transport asking for sessions.
Reconnect ==
    \/ \E k \in Calls : GetSession(k)
    \/ \E k \in Calls : GetSessionResumeOk(k)
    \/ \E k \in Calls, error \in SupplierThrown : GetSessionResumeFail(k, error)
    \/ \E k \in Calls : GetSessionCreateOk(k)
    \/ \E k \in Calls, error \in SupplierThrown : GetSessionCreateFail(k, error)

\* The hook with the document's visibility events.  The getSession steps change
\* only the supplier's own variables, the session counters and handedCount, and
\* read only clientState: they are left to SpecReconnect.
Next == Lifecycle \/ VisibilityChange

Spec == Init /\ [][Next]_vars

\* The hook with the transport's getSession invocations.
NextReconnect == Lifecycle \/ Reconnect

SpecReconnect == Init /\ [][NextReconnect]_vars

\* The hook as the Dashboard of App.tsx drives it.  The sandbox list and the
\* create-and-connect button are rendered only while the rendered activeSandbox
\* is null; the SandboxManager renders its disconnect button only for a rendered
\* activeSandbox that is not the connecting placeholder.  A state update made in
\* a click handler is rendered before the next click is handled; the updates
\* made after an await and in the window's connection-error listener are rendered
\* later (Render).
DashboardConnect(sandboxInfo) ==
    /\ rendered.isNull
    /\ ConnectToSandbox(sandboxInfo)
    /\ rendered' = activeSandbox'

DashboardCreateAndConnect ==
    /\ rendered.isNull
    /\ CreateAndConnect
    /\ rendered' = activeSandbox'

ManagerDisconnect(outcome) ==
    /\ ~rendered.isNull
    /\ ~rendered.isConnecting
    /\ DisconnectFromSandbox(outcome)
    /\ rendered' = activeSandbox'

NextApp ==
    \/ \E sandboxInfo \in SandboxInfos : DashboardConnect(sandboxInfo)
    \/ DashboardCreateAndConnect
    \/ \E outcome \in DisconnectOutcomes : ManagerDisconnect(outcome)
    \/ Settle
    \/ \E outcome \in DisconnectOutcomes : HandleConnectionError(outcome)
    \/ Render
    \/ VisibilityChange

SpecApp == Init /\ [][NextApp]_vars

\* The Dashboard-driven hook with the transport's getSession invocations, under
\* the scheduling the event loop gives: a pending remote call is settled (it
\* resolves or rejects) and a pending state update is rendered.  What the user,
\* the transport and the window's error events do is not forced.
SupplierSettle ==
    \/ \E k \in Calls : GetSessionResumeOk(k) \/ GetSessionCreateOk(k)
    \/ \E k \in Calls, error \in SupplierThrown :
           GetSessionResumeFail(k, error) \/ GetSessionCreateFail(k, error)

Fairness == WF_vars(Settle) /\ WF_vars(SupplierSettle) /\ WF_vars(Render)

NextAppReconnect ==
    \/ \E sandboxInfo \in SandboxInfos : DashboardConnect(sandboxInfo)
    \/ DashboardCreateAndConnect
    \/ \E outcome \in DisconnectOutcomes : ManagerDisconnect(outcome)
    \/ Settle
    \/ \E outcome \in DisconnectOutcomes : HandleConnectionError(outcome)
    \/ Render
    \/ Reconnect

FairAppReconnect == Init /\ [][NextAppReconnect]_vars /\ Fairness

\* ------------------------------------------------------------------ claims
\* C1: within one call, the resume call completes before session creation starts
\* and session creation completes before the transport open starts; the transport
\* open is never started when resume or session creation failed.
C1_ResumeThenSessionThenOpen ==
    \A k \in Calls :
        /\ resumeDone[k] <= resumeCalls[k]
        /\ createCalls[k] <= resumeDone[k]
        /\ createDone[k] <= createCalls[k]
        /\ openCalls[k] <= createDone[k]
        /\ (pc[k] = "failed" /\ createDone[k] = 0 => openCalls[k] = 0)

C1_Witness ==
    \E k, j \in Calls :
        /\ pc[k] = "open" /\ resumeDone[k] = 1 /\ createDone[k] = 1 /\ openCalls[k] = 1
        /\ pc[j] = "failed" /\ resumeCalls[j] = 1 /\ createDone[j] = 0

\* C2 as stated: once the N getSession invocations of a client have settled, the
\* supplier has made exactly N resume calls and N create-session calls.
C2_NResumeNCreate ==
    \A k \in Calls :
        supPc[k] = "idle" =>
            supResumeCalls[k] = supInvoked[k] /\ supCreateCalls[k] = supInvoked[k]

\* C2 amended: every getSession invocation makes exactly one resume call, and one
\* create-session call once that resume has resolved (none when it rejected); a
\* session is returned only by an invocation that made both calls.
C2_ResumeAndCreatePerInvocation ==
    \A k \in Calls :
        /\ supResumeCalls[k] = supInvoked[k]
        /\ supCreateCalls[k] + supResumeRejected[k] + (IF supPc[k] = "resume" THEN 1 ELSE 0)
              = supInvoked[k]
        /\ supReturned[k] + supRejected[k] + (IF supPc[k] = "idle" THEN 0 ELSE 1)
              = supInvoked[k]
        /\ supReturned[k] <= supCreateCalls[k]
        /\ supResumeRejected[k] <= supRejected[k]

C2_Witness ==
    \E k \in Calls :
        /\ supPc[k] = "idle" /\ supInvoked[k] = 2
        /\ supReturned[k] = 1 /\ supResumeRejected[k] = 1

\* C3: no session is handed to the transport twice: the initial session goes to
\* the open step only, and every session getSession returns differs from the
\* initial session and from the sessions returned before.
C3_NoSessionHandedTwice ==
    /\ \A s \in Sessions : handedCount[s] <= 1
    /\ \A k \in Calls : initialSession[k] # NoSession => handedCount[initialSession[k]] = 1

C3_Witness == \E k \in Calls : supReturned[k] = 2 /\ initialSession[k] # NoSession

\* C4: a later connect makes its own resume and create-session calls and passes
\* to the transport only a session created in that connect, never one of an
\* earlier connect.
C4_IndependentSessions ==
    \A k \in Calls :
        /\ openCalls[k] >= 1 =>
              /\ resumeCalls[k] = 1 /\ resumeDone[k] = 1
              /\ createCalls[k] = 1 /\ createDone[k] = 1
              /\ initialSession[k][1] = k
        /\ \A j \in Calls :
              j # k /\ initialSession[j] # NoSession => initialSession[j] # initialSession[k]

C4_Witness ==
    /\ kind[1] = "connect" /\ kind[2] = "connect" /\ info[1].id = info[2].id
    /\ clientState[1] = "closed" /\ disconnectCount[1] = 1
    /\ clientState[2] = "open" /\ cancelled = {}

\* C5 as stated: client.disconnect() is invoked exactly once on every opened
\* client: not more than once, and not zero times once the hook no longer holds
\* the client as its active one.
C5_DisconnectedExactlyOnce ==
    \A c \in Calls :
        /\ disconnectCount[c] <= 1
        /\ (clientState[c] # "none" /\ activeSandbox.client # c => disconnectCount[c] = 1)

\* C6 as stated: a connect that was in flight when disconnectFromSandbox ran is
\* cleaned up once it settles: its client is disconnected, its visibility
\* listener is not registered and it is not the active sandbox.
C6_CleanupAfterDisconnectInFlight ==
    \A k \in cancelled :
        pc[k] = "done" =>
            /\ clientState[k] = "closed"
            /\ k \notin listeners
            /\ activeSandbox.client # k

\* C7 as stated: at most one live client is open for a sandbox handle.
C7_AtMostOneLiveClient ==
    \A c, d \in Calls :
        c # d /\ clientState[c] = "open" /\ clientState[d] = "open"
            => info[c].id # info[d].id

C10_SessionClassification ==
    [][\A k \in Calls :
          kind[k] = "connect" /\ pc[k] \in {"resume", "session"} /\ pc'[k] = "failed"
              => connectionError' = SessionMessage /\ activeSandbox'.isNull]_vars

\* C11 as stated: when the transport open of connectToSandbox rejects (resume and
\* session creation succeeded), the call ends with the transport (WebSocket)
\* message as connection error and no active sandbox, whatever the error is.
C11_TransportClassification ==
    [][\A k \in Calls :
          kind[k] = "connect" /\ pc[k] = "open" /\ pc'[k] = "failed"
              => connectionError' = WebSocketMessage /\ activeSandbox'.isNull]_vars

\* C12 as stated: a call makes at most one resume, one create-session and one
\* transport-open call, and while the state is Idle or Error (no active sandbox)
\* no resume, create-session or open call is made unless connectToSandbox or
\* createAndConnect is called again.
C12_NoCallsWhileIdleOrError ==
    [][/\ \A k \in Calls :
             resumeCalls'[k] <= 1 /\ createCalls'[k] <= 1 /\ openCalls'[k] <= 1
       /\ (activeSandbox.isNull /\ nCalls' = nCalls
              => UNCHANGED <<resumeCalls, createCalls, openCalls>>)]_vars

\* C13 as stated: disconnectFromSandbox called again right after a
\* disconnectFromSandbox call (the state is Idle: no active sandbox, no error)
\* leaves the state Idle and invokes client.disconnect() on no client, whether
\* or not the hook was rendered between the two calls.
C13_DisconnectIdempotent ==
    [][activeSandbox.isNull /\ connectionError = NoError
          /\ disconnectCalls >= 1 /\ disconnectCalls' = disconnectCalls + 1
       => /\ activeSandbox'.isNull /\ connectionError' = NoError
          /\ disconnectCount' = disconnectCount]_vars

\* C14: disconnectFromSandbox never throws: when client.disconnect() raises an
\* error, the call catches it and still completes with no active sandbox and no
\* connection error.
C14_DisconnectSwallowsErrors ==
    [][disconnectErrors' # disconnectErrors
       => /\ disconnectErrors' = disconnectErrors + 1
          /\ disconnectCalls' = disconnectCalls + 1
          /\ activeSandbox'.isNull /\ connectionError' = NoError]_vars

C14_Witness ==
    /\ disconnectErrors = 1 /\ disconnectCalls = 1
    /\ activeSandbox.isNull /\ connectionError = NoError
    /\ \E c \in Calls : disconnectCount[c] = 1 /\ clientState[c] = "open"

\* C15: the state is Connected (an active sandbox with a client and isConnecting
\* false) only when resume, session creation and transport open of the call
\* that opened the client have all succeeded, and the client is the live one of
\* that call; and a call whose three steps succeeded, with no other call, no
\* disconnect and no connection error, has left the state Connected with its client.
C15_ConnectedOnlyAfterAllThree ==
    /\ ~activeSandbox.isNull /\ ~activeSandbox.isConnecting =>
          LET k == activeSandbox.client
          IN  /\ k \in 1..nCalls
              /\ resumeDone[k] = 1 /\ createDone[k] = 1 /\ openCalls[k] = 1
              /\ pc[k] = "done" /\ clientState[k] = "open"
              /\ activeSandbox.sandbox.id = info[k].id
    /\ nCalls = 1 /\ pc[1] = "done" /\ disconnectCalls = 0 /\ connectionError = NoError =>
          /\ ~activeSandbox.isNull /\ ~activeSandbox.isConnecting
          /\ activeSandbox.client = 1

C15_Witness ==
    /\ nCalls = 1 /\ kind[1] = "connect" /\ info[1].id = "abc123"
    /\ pc[1] = "done" /\ resumeDone[1] = 1 /\ createDone[1] = 1
    /\ \E sandboxInfo \in SandboxInfos :
           activeSandbox = SandboxWithClient(sandboxInfo, 1, FALSE)
    /\ rendered = activeSandbox

\* C16: a disconnectFromSandbox call made in the Connected state or in an Error
\* state (a connection error, no active sandbox) leaves the state Idle: no
\* active sandbox and no connection error.
C16_DisconnectLeadsToIdle ==
    [][/\ \/ ~activeSandbox.isNull /\ ~activeSandbox.isConnecting
          \/ activeSandbox.isNull /\ connectionError # NoError
       /\ disconnectCalls' = disconnectCalls + 1
       => activeSandbox' = NullActive /\ connectionError' = NoError]_vars

C16_Witness ==
    /\ nCalls = 2 /\ disconnectCalls = 2
    /\ pc[1] = "done" /\ clientState[1] = "closed" /\ disconnectCount[1] = 1
    /\ pc[2] = "failed" /\ resumeDone[2] = 0
    /\ activeSandbox = NullActive /\ connectionError = NoError

\* C17 as stated: once the session supplier of the connected client has rejected,
\* the state leaves Connected: the client is no longer the active one (and the
\* state is Error).
C17_SupplierFailureLosesConnection ==
    \A k \in Calls :
        (supRejected[k] >= 1 /\ activeSandbox.client = k) ~> (activeSandbox.client # k)

\* C18: a getSession invocation the transport made is settled without any call
\* of the hook: when its resume and create-session calls resolve it returns a
\* new session to the transport, and no step of it changes the caller-visible
\* state, so a Connected state stays Connected.
C18_SupplierReturnsWithoutCaller ==
    /\ \A k \in Calls : (supPc[k] # "idle") ~> (supPc[k] = "idle")
    /\ [][\A k \in Calls :
             supPc'[k] # supPc[k] =>
                 /\ UNCHANGED <<activeSandbox, connectionError, nCalls, disconnectCalls>>
                 /\ (supPc[k] = "session" /\ supRejected'[k] = supRejected[k] =>
                        /\ supReturned'[k] = supReturned[k] + 1
                        /\ handedCount'[getSessionResult(k)] = 1)]_vars

C18_Witness ==
    \E k \in Calls :
        /\ supInvoked[k] = 1 /\ supReturned[k] = 1 /\ supPc[k] = "idle"
        /\ nCalls = 1 /\ disconnectCalls = 0 /\ connectionError = NoError
        /\ activeSandbox.client = k /\ ~activeSandbox.isConnecting
        /\ clientState[k] = "open"

\* C19: the sandbox stored as active by a successful connectToSandbox call has
\* the id of the sandboxInfo passed to the call and its title, privacy,
\* createdAt, updatedAt and tags, whatever the resume response contained.
C19_ListingMetadataOnHandle ==
    \A k \in Calls :
        activeSandbox.client = k /\ kind[k] = "connect" =>
            /\ activeSandbox.sandbox.id = info[k].id
            /\ activeSandbox.sandbox.title = info[k].title
            /\ activeSandbox.sandbox.privacy = info[k].privacy
            /\ activeSandbox.sandbox.createdAt = info[k].createdAt
            /\ activeSandbox.sandbox.updatedAt = info[k].updatedAt
            /\ activeSandbox.sandbox.tags = info[k].tags

C19_Witness ==
    \E k \in Calls :
        /\ kind[k] = "connect" /\ pc[k] = "done" /\ activeSandbox.client = k
        /\ activeSandbox.sandbox.title = "Demo" /\ activeSandbox.sandbox.tags = "demo,test"
        /\ activeSandbox.sandbox \notin resume(info[k].id)

\* C20 as stated: while Connected, a visibility change from hidden to visible
\* calls notify(true) exactly once, on the transport of the connected client,
\* and notifies no other transport, so that the one event can make at most one
\* transport ask its session supplier.
C20_OneNotifyPerVisibleEvent ==
    [][\A c \in Calls :
          /\ activeSandbox.client = c /\ clientState[c] = "open"
          /\ visibilityState = "hidden" /\ visibilityState' = "visible"
          /\ nEvents' = nEvents + 1
          => /\ notifiedVisible'[c] = notifiedVisible[c] + 1
             /\ notifyCount'[c] = notifyCount[c] + 1
             /\ \A d \in Calls \ {c} : notifyCount'[d] = notifyCount[d]]_vars

\* C21: when a getSession invocation of a client that disconnectFromSandbox has
\* disconnected resolves or rejects, the caller-visible state (active sandbox,
\* connection error) stays what it was.
C21_SupplierNoOpAfterDisconnect ==
    [][\A k \in Calls :
          /\ supPc[k] # "idle" /\ supPc'[k] # supPc[k]
          /\ disconnectCalls >= 1 /\ disconnectCount[k] >= 1
          => UNCHANGED <<activeSandbox, connectionError>>]_vars

C21_Witness ==
    \E k \in Calls :
        /\ clientState[k] = "closed" /\ disconnectCalls = 1 /\ disconnectCount[k] = 1
        /\ supInvoked[k] = 1 /\ supRejected[k] = 1 /\ supPc[k] = "idle"
        /\ activeSandbox = NullActive /\ connectionError = NoError

\* ------------------------------------------- connectToBrowserSandbox, direct
\* What a caller can pass as options.onFocusChange: nothing, or a registration
\* function of its own.
FocusOptions == {"none", "custom"}

\* connectToBrowserSandbox(sdk, sandboxId, options) called without the hook (as
\* the CLI dashboard calls it), up to its first await: the resume call is issued.
ConnectToBrowserSandbox(sandboxId, option) ==
    /\ nCalls < MaxCalls
    /\ nCalls' = nCalls + 1
    /\ kind' = [kind EXCEPT ![nCalls + 1] = "direct"]
    /\ info' = [info EXCEPT ![nCalls + 1] = [NoSandbox EXCEPT !.id = sandboxId]]
    /\ focusOption' = [focusOption EXCEPT ![nCalls + 1] = option]
    /\ pc' = [pc EXCEPT ![nCalls + 1] = "resume"]
    /\ resumeCalls' = [resumeCalls EXCEPT ![nCalls + 1] = @ + 1]
    /\ UNCHANGED <<hookVars, resumeDone, createCalls, createDone, openCalls,
                   initialSession, cancelled, receivedCustom>>
    /\ UNCHANGED <<platformVars, clientVars, handedCount, supplierVars, documentVars>>
    /\ UNCHANGED teardownVars
    /\ UNCHANGED resultVars
    /\ UNCHANGED componentVars

\* connectToBrowserSandbox as a library function, with the document's
\* visibility events.
NextLibrary ==
    \/ \E sandboxId \in SandboxIds, option \in FocusOptions :
           ConnectToBrowserSandbox(sandboxId, option)
    \/ \E k \in Calls : ResumeOk(k)
    \/ \E k \in Calls, error \in Thrown : ResumeFail(k, error)
    \/ \E k \in Calls : CreateSessionOk(k)
    \/ \E k \in Calls, error \in Thrown : CreateSessionFail(k, error)
    \/ \E k \in Calls : OpenOk(k)
    \/ \E k \in Calls, error \in Thrown : OpenFail(k, error)
    \/ VisibilityChange

SpecLibrary == Init /\ [][NextLibrary]_vars

\* C22: a client opened with the caller's own onFocusChange function has had
\* exactly that function called by the transport, and the default document
\* visibility listener is never registered for it (so it is never notified by
\* the document); a client opened without the option has the default listener
\* registered; a call that opened no client registered nothing.
C22_FocusOptionHonoured ==
    \A k \in Calls :
        /\ clientState[k] = "none" => k \notin listeners /\ k \notin receivedCustom
        /\ clientState[k] # "none" /\ focusOption[k] = "custom" =>
               k \in receivedCustom /\ k \notin listeners /\ notifyCount[k] = 0
        /\ clientState[k] = "open" /\ focusOption[k] = "none" =>
               k \in listeners /\ k \notin receivedCustom

C22_Witness ==
    \E k, j \in Calls :
        /\ clientState[k] = "open" /\ focusOption[k] = "custom" /\ k \in receivedCustom
        /\ clientState[j] = "open" /\ focusOption[j] = "none" /\ j \in listeners
        /\ nEvents = MaxEvents /\ notifyCount[j] >= 1 /\ notifyCount[k] = 0

\* connectToBrowserSandbox as a library function with the transport's getSession
\* invocations.
NextLibraryReconnect ==
    \/ NextLibrary
    \/ \E k \in Calls : GetSession(k)
    \/ \E k \in Calls : GetSessionResumeOk(k)
    \/ \E k \in Calls, error \in Thrown : GetSessionResumeFail(k, error)
    \/ \E k \in Calls : GetSessionCreateOk(k)
    \/ \E k \in Calls, error \in Thrown : GetSessionCreateFail(k, error)

SpecLibraryReconnect == Init /\ [][NextLibraryReconnect]_vars

\* C23: when the resume or the createSession call inside getSession rejects, the
\* getSession promise rejects with that same error and carries no session; a
\* promise that resolved had no failing call and carries the session that was
\* just created, never undefined and never the initial session.
C23_SupplierRejectsWithSameError ==
    \A k \in Calls :
        /\ supThrown[k] # NotThrown => supResult[k] = Rejected(supThrown[k])
        /\ supResult[k].kind = "rejected" =>
               supResult[k].error = supThrown[k] /\ supResult[k].error \in Thrown
        /\ supResult[k].kind = "resolved" =>
               /\ supThrown[k] = NotThrown
               /\ supResult[k].session = <<k, created[k]>>
               /\ supResult[k].session \notin {NoSession, initialSession[k]}

C23_Witness ==
    \E k, j \in Calls :
        /\ supResult[k].kind = "rejected" /\ supResult[k].error.isError
        /\ supResumeRejected[k] = 0 /\ supCreateCalls[k] = 1 /\ supPc[k] = "idle"
        /\ supResult[j].kind = "rejected" /\ supResumeRejected[j] = 1
        /\ supResult[j].error # supResult[k].error

\* C24: on a 'codesandbox-connection-error' event, if a sandbox is active its
\* client (when non-null) gets a client.disconnect() call, the active sandbox
\* becomes null and the connection error is set to the connection-lost message,
\* whatever client.disconnect() raises; if no sandbox is active, the active
\* sandbox and the connection error stay as they are.
C24_ConnectionErrorEvent ==
    [][(\E outcome \in DisconnectOutcomes : HandleConnectionError(outcome)) =>
          IF ~activeSandbox.isNull
          THEN /\ activeSandbox' = NullActive
               /\ connectionError' = ConnectionLostMessage
               /\ activeSandbox.client # 0 =>
                      disconnectCount'[activeSandbox.client] =
                          disconnectCount[activeSandbox.client] + 1
          ELSE UNCHANGED <<activeSandbox, connectionError>>]_vars

\* C25: Error and Connected are mutually exclusive: whenever the connection
\* error is non-null, the active sandbox holds no client that is open.
C25_ErrorExcludesConnected ==
    connectionError # NoError =>
        ~(activeSandbox.client # 0 /\ clientState[activeSandbox.client] = "open")

\* C26: the active sandbox is null, or the connecting placeholder (sandbox null,
\* client null, isConnecting true), or a connected record (sandbox non-null,
\* client non-null, isConnecting false).
C26_ActiveSandboxShapes ==
    \/ activeSandbox = NullActive
    \/ activeSandbox = ConnectingPlaceholder
    \/ /\ ~activeSandbox.isNull
       /\ activeSandbox.sandbox # NoSandbox /\ activeSandbox.sandbox.id # "null"
       /\ activeSandbox.client \in Calls
       /\ activeSandbox.isConnecting = FALSE

C26_Witness ==
    /\ activeSandbox.client \in Calls
    /\ rendered = ConnectingPlaceholder
    /\ \E k \in Calls : pc[k] = "failed"
    /\ disconnectCalls >= 1

\* ------------------------------------------------------------ CliDashboard
\* What the CliDashboard actions leave alone.
cliFrame == <<connectionVars, appVars, termVars, fileVars>>

\* The condition of the auto-init effect, on the values of its render
\* (sandboxes.length >= 0 holds for every list).
ShouldInitialize(c) ==
    /\ c.sandboxes.length >= 0
    /\ c.terminalSession = 0
    /\ ~c.isCreatingSandbox
    /\ ~c.isConnectingTerminal
    /\ ~c.isInitialized

\* initializeTerminal up to its first remote call, as invocation i, on the list
\* of its render: setIsInitialized(true); findOrCreateCliSandbox either finds a
\* CLI sandbox in the list and connectTerminal starts, or issues
\* sdk.sandboxes.create.
InitPcAtStart(list) == IF list.hasCli THEN "connecting" ELSE "creating"

\* The component mounts with the sandboxes prop `list`: the effect of the first
\* render runs.  Under StrictMode (development build) React runs the effect,
\* its cleanup and the effect again, all on the values of the first render.
Mount(strict, list) ==
    /\ ~mounted
    /\ mounted' = TRUE
    /\ sandboxes' = list
    /\ effectClosure' = Closure(FALSE, FALSE, FALSE, 0, list)
    /\ ShouldInitialize(effectClosure')
    /\ nInits' = IF strict THEN 2 ELSE 1
    /\ nInits' <= MaxInits
    /\ initPc' = [i \in Inits |-> IF i <= nInits' THEN InitPcAtStart(list) ELSE "idle"]
    /\ isInitialized' = TRUE
    /\ isCreatingSandbox' = ~list.hasCli
    /\ isConnectingTerminal' = list.hasCli
    /\ UNCHANGED <<terminalSession, terminalsCreated, nListChanges>>
    /\ UNCHANGED cliFrame

\* A render in which a dependency of the effect (isInitialized, sandboxes.length)
\* differs from the render the effect last ran in: the cleanup of that render
\* runs (disconnectTerminal on its values), then the effect on the new values.
EffectRerun ==
    /\ mounted
    /\ <<isInitialized, sandboxes.length>> #
           <<effectClosure.isInitialized, effectClosure.sandboxes.length>>
    /\ LET c == Closure(isInitialized, isCreatingSandbox, isConnectingTerminal,
                        terminalSession, sandboxes)
       IN /\ effectClosure' = c
          /\ terminalSession' = IF effectClosure.terminalSession # 0 THEN 0
                                ELSE terminalSession
          /\ IF ShouldInitialize(c)
             THEN /\ nInits < MaxInits
                  /\ nInits' = nInits + 1
                  /\ initPc' = [initPc EXCEPT ![nInits + 1] = InitPcAtStart(c.sandboxes)]
                  /\ isInitialized' = TRUE
                  /\ isCreatingSandbox' = ~c.sandboxes.hasCli
                  /\ isConnectingTerminal' = c.sandboxes.hasCli
             ELSE /\ isInitialized' = FALSE
                  /\ UNCHANGED <<nInits, initPc, isCreatingSandbox, isConnectingTerminal>>
    /\ UNCHANGED <<mounted, sandboxes, terminalsCreated, nListChanges>>
    /\ UNCHANGED cliFrame

\* sdk.sandboxes.create of invocation i resolves: findOrCreateCliSandbox returns
\* (finally: setIsCreatingSandbox(false)) and connectTerminal starts.
CliSandboxCreateOk(i) ==
    /\ initPc[i] = "creating"
    /\ initPc' = [initPc EXCEPT ![i] = "connecting"]
    /\ isCreatingSandbox' = FALSE
    /\ isConnectingTerminal' = TRUE
    /\ UNCHANGED <<mounted, isInitialized, terminalSession, sandboxes, effectClosure,
                   nInits, terminalsCreated, nListChanges>>
    /\ UNCHANGED cliFrame

\* sdk.sandboxes.create rejects: the catch block of initializeTerminal resets the flag.
CliSandboxCreateFail(i) ==
    /\ initPc[i] = "creating"
    /\ initPc' = [initPc EXCEPT ![i] = "failed"]
    /\ isCreatingSandbox' = FALSE
    /\ isInitialized' = FALSE
    /\ UNCHANGED <<mounted, isConnectingTerminal, terminalSession, sandboxes,
                   effectClosure, nInits, terminalsCreated, nListChanges>>
    /\ UNCHANGED cliFrame

\* connectTerminal of invocation i succeeds: the client is connected, the remote
\* terminal and the xterm are created and the session is stored.
ConnectTerminalOk(i) ==
    /\ initPc[i] = "connecting"
    /\ initPc' = [initPc EXCEPT ![i] = "done"]
    /\ terminalSession' = i
    /\ terminalsCreated' = terminalsCreated + 1
    /\ isConnectingTerminal' = FALSE
    /\ UNCHANGED <<mounted, isInitialized, isCreatingSandbox, sandboxes, effectClosure,
                   nInits, nListChanges>>
    /\ UNCHANGED cliFrame

\* connectTerminal rejects (finally: setIsConnectingTerminal(false)); the catch
\* block of initializeTerminal resets the flag.
ConnectTerminalFail(i) ==
    /\ initPc[i] = "connecting"
    /\ initPc' = [initPc EXCEPT ![i] = "failed"]
    /\ isConnectingTerminal' = FALSE
    /\ isInitialized' = FALSE
    /\ UNCHANGED <<mounted, isCreatingSandbox, terminalSession, sandboxes, effectClosure,
                   nInits, terminalsCreated, nListChanges>>
    /\ UNCHANGED cliFrame

\* The parent passes another sandboxes list (a refetch, a created or deleted sandbox).
SandboxesChange(list) ==
    /\ mounted
    /\ nListChanges < MaxListChanges
    /\ list # sandboxes
    /\ sandboxes' = list
    /\ nListChanges' = nListChanges + 1
    /\ UNCHANGED <<mounted, isInitialized, isCreatingSandbox, isConnectingTerminal,
                   terminalSession, effectClosure, nInits, initPc, terminalsCreated>>
    /\ UNCHANGED cliFrame

NextCli ==
    \/ \E strict \in BOOLEAN, list \in SandboxLists : Mount(strict, list)
    \/ EffectRerun
    \/ \E i \in Inits : CliSandboxCreateOk(i)
    \/ \E i \in Inits : CliSandboxCreateFail(i)
    \/ \E i \in Inits : ConnectTerminalOk(i)
    \/ \E i \in Inits : ConnectTerminalFail(i)
    \/ \E list \in SandboxLists : SandboxesChange(list)

SpecCli == Init /\ [][NextCli]_vars

InitInFlight(i) == initPc[i] \in {"creating", "connecting"}

\* C27: at most one initializeTerminal is in flight at a time, at most one
\* terminal session is created per mount, and when no initialization is in
\* flight and one has failed without another having succeeded, isInitialized
\* is false.
C27_SingleInitialization ==
    /\ Cardinality({i \in Inits : InitInFlight(i)}) <= 1
    /\ terminalsCreated <= 1
    /\ (/\ \A i \in Inits : ~InitInFlight(i)
        /\ \E i \in Inits : initPc[i] = "failed"
        /\ \A i \in Inits : initPc[i] # "done") => ~isInitialized

\* ------------------------------------------------- Dashboard: the API key
\* What the API-key actions leave alone.
appFrame == <<connectionVars, cliVars, termVars, fileVars>>

\* The text typed into the key field: sequences of characters up to MaxTyped.
TypedChars == {" ", "a", "b"}
TypedInputs == UNION {[1..n -> TypedChars] : n \in 0..MaxTyped}

\* String.prototype.trim on a sequence of characters.
RECURSIVE trimStart(_)
trimStart(s) == IF s # <<>> /\ Head(s) = " " THEN trimStart(Tail(s)) ELSE s
RECURSIVE trimEnd(_)
trimEnd(s) ==
    IF s # <<>> /\ s[Len(s)] = " " THEN trimEnd(SubSeq(s, 1, Len(s) - 1)) ELSE s
trim(s) == trimEnd(trimStart(s))

\* The message the catch block of handleApiKeySubmit stores.
apiErrorMessage(error) ==
    IF error.isError THEN ApiErrorMessage(error.message) ELSE InvalidApiKeyMessage

\* The view the Dashboard renders.
View ==
    IF apiKey = NoKey \/ apiKey = <<>> THEN "ApiKeyInput"
    ELSE IF ~activeSandbox.isNull THEN "SandboxManager"
    ELSE "Dashboard"

\* Mutant of HandleApiKeySubmit: the key is stored before the validation call.
HandleApiKeySubmitStoringFirst(typed) ==
    /\ View = "ApiKeyInput"
    /\ trim(typed) # <<>>
    /\ nSubmits < MaxSubmits
    /\ nSubmits' = nSubmits + 1
    /\ submitKey' = [submitKey EXCEPT ![nSubmits + 1] = trim(typed)]
    /\ submitPc' = [submitPc EXCEPT ![nSubmits + 1] = "validating"]
    /\ apiError' = NoApiError
    /\ apiKey' = trim(typed)
    /\ UNCHANGED appFrame

\* The form of ApiKeyInput is submitted with the typed text: a text that is
\* not blank is passed, trimmed, to handleApiKeySubmit, which clears the error
\* and issues the validation call (sandboxes.list with page size 1).
HandleApiKeySubmit(typed) ==
    /\ View = "ApiKeyInput"
    /\ trim(typed) # <<>>
    /\ nSubmits < MaxSubmits
    /\ nSubmits' = nSubmits + 1
    /\ submitKey' = [submitKey EXCEPT ![nSubmits + 1] = trim(typed)]
    /\ submitPc' = [submitPc EXCEPT ![nSubmits + 1] = "validating"]
    /\ apiError' = NoApiError
    /\ UNCHANGED apiKey
    /\ UNCHANGED appFrame

\* The validation call of invocation j resolves: the key is stored.
ValidateOk(j) ==
    /\ submitPc[j] = "validating"
    /\ submitPc' = [submitPc EXCEPT ![j] = "stored"]
    /\ apiKey' = submitKey[j]
    /\ UNCHANGED <<apiError, nSubmits, submitKey>>
    /\ UNCHANGED appFrame

\* The validation call rejects: the catch block stores the error message.
ValidateFail(j, error) ==
    /\ submitPc[j] = "validating"
    /\ submitPc' = [submitPc EXCEPT ![j] = "failed"]
    /\ apiError' = apiErrorMessage(error)
    /\ UNCHANGED <<apiKey, nSubmits, submitKey>>
    /\ UNCHANGED appFrame

\* The sandbox list is rendered only with a stored key.
KeyedConnect(sandboxInfo) ==
    /\ View = "Dashboard"
    /\ DashboardConnect(sandboxInfo)

NextKey ==
    \/ \E typed \in TypedInputs : HandleApiKeySubmit(typed)
    \/ \E j \in Submits : ValidateOk(j)
    \/ \E j \in Submits, error \in Thrown : ValidateFail(j, error)
    \/ \E sandboxInfo \in SandboxInfos : KeyedConnect(sandboxInfo)
    \/ \E k \in Calls : ResumeOk(k)
    \/ \E k \in Calls, error \in Thrown : ResumeFail(k, error)
    \/ \E k \in Calls : CreateSessionOk(k)
    \/ \E k \in Calls : OpenOk(k)
    \/ \E outcome \in DisconnectOutcomes : ManagerDisconnect(outcome)
    \/ Render

SpecKey == Init /\ [][NextKey]_vars

termFrame == <<connectionVars, cliVars, appVars, fileVars>>

\* The guard of the terminal effect: a client, the terminal element (rendered
\* when the view is not the connecting view) and no xterm stored yet.
ShouldInitTerminal(sandboxWithClient, ref) ==
    /\ sandboxWithClient.client # 0
    /\ ~sandboxWithClient.isConnecting
    /\ ref = 0

\* The Dashboard's render is committed: the SandboxManager is mounted for a
\* non-null activeSandbox and unmounted for null.  On a mount the terminal
\* effect runs (twice under StrictMode, on the same values: the effect returns
\* no cleanup); in a mounted instance it runs when the client differs from the
\* one of the last commit.  Every run that passes the guard calls initTerminal.
ManagerCommit(strict) ==
    /\ managerSeen # rendered
    /\ managerSeen' = rendered
    /\ managerMounted' = ~rendered.isNull
    /\ LET mounts == ~rendered.isNull /\ ~managerMounted
           runs == IF rendered.isNull THEN 0
                   ELSE IF mounts THEN (IF strict THEN 2 ELSE 1)
                   ELSE IF rendered.client # managerSeen.client THEN 1 ELSE 0
           ref == IF mounts THEN 0 ELSE xtermRef
           started == IF ShouldInitTerminal(rendered, ref) THEN runs ELSE 0
       IN /\ mountCount' = IF mounts THEN mountCount + 1 ELSE mountCount
          /\ xtermRef' = IF rendered.isNull THEN 0 ELSE ref
          /\ nTermInits + started <= MaxTermInits
          /\ nTermInits' = nTermInits + started
          /\ termPc' = [t \in TermInits |->
                           IF t > nTermInits /\ t <= nTermInits + started
                           THEN "creating" ELSE termPc[t]]
          /\ termClient' = [t \in TermInits |->
                               IF t > nTermInits /\ t <= nTermInits + started
                               THEN rendered.client ELSE termClient[t]]
          /\ termMount' = [t \in TermInits |->
                              IF t > nTermInits /\ t <= nTermInits + started
                              THEN mountCount' ELSE termMount[t]]
    /\ UNCHANGED <<remoteTerminals, xterms>>
    /\ UNCHANGED termFrame

\* The instance that called initTerminal t is still mounted with its terminal element.
TerminalElementPresent(t) ==
    managerMounted /\ termMount[t] = mountCount /\ ~managerSeen.isConnecting

\* client.terminals.create() of invocation t resolves: the xterm is constructed
\* and opened on the terminal element (xterm.open throws without the element,
\* which the catch block logs), and terminal.open() is issued.
TerminalCreateOk(t) ==
    /\ termPc[t] = "creating"
    /\ remoteTerminals' = [remoteTerminals EXCEPT ![termClient[t]] = @ + 1]
    /\ xterms' = [xterms EXCEPT ![termClient[t]] = @ + 1]
    /\ termPc' = [termPc EXCEPT ![t] = IF TerminalElementPresent(t) THEN "opening"
                                       ELSE "failed"]
    /\ UNCHANGED <<managerMounted, managerSeen, mountCount, xtermRef, nTermInits,
                   termClient, termMount>>
    /\ UNCHANGED termFrame

\* client.terminals.create() rejects: the catch block logs.
TerminalCreateFail(t) ==
    /\ termPc[t] = "creating"
    /\ termPc' = [termPc EXCEPT ![t] = "failed"]
    /\ UNCHANGED <<managerMounted, managerSeen, mountCount, xtermRef, nTermInits,
                   termClient, termMount, remoteTerminals, xterms>>
    /\ UNCHANGED termFrame

\* terminal.open() resolves: the output is written and xtermRef.current is set
\* (the ref of the instance that made the invocation).
TerminalOpenOk(t) ==
    /\ termPc[t] = "opening"
    /\ termPc' = [termPc EXCEPT ![t] = "done"]
    /\ xtermRef' = IF managerMounted /\ termMount[t] = mountCount THEN t ELSE xtermRef
    /\ UNCHANGED <<managerMounted, managerSeen, mountCount, nTermInits,
                   termClient, termMount, remoteTerminals, xterms>>
    /\ UNCHANGED termFrame

\* terminal.open() rejects: the catch block logs.
TerminalOpenFail(t) ==
    /\ termPc[t] = "opening"
    /\ termPc' = [termPc EXCEPT ![t] = "failed"]
    /\ UNCHANGED <<managerMounted, managerSeen, mountCount, xtermRef, nTermInits,
                   termClient, termMount, remoteTerminals, xterms>>
    /\ UNCHANGED termFrame

\* A render of the Dashboard is committed before anything else happens.
Committed == managerSeen = rendered

\* The Dashboard with the SandboxManager's terminal.
NextManager ==
    \/ \E strict \in BOOLEAN : ManagerCommit(strict)
    \/ \E sandboxInfo \in SandboxInfos : Committed /\ DashboardConnect(sandboxInfo)
    \/ \E outcome \in DisconnectOutcomes : Committed /\ ManagerDisconnect(outcome)
    \/ \E k \in Calls : Committed /\ ResumeOk(k)
    \/ \E k \in Calls : Committed /\ CreateSessionOk(k)
    \/ \E k \in Calls : Committed /\ OpenOk(k)
    \/ \E k \in Calls, error \in Thrown : Committed /\ OpenFail(k, error)
    \/ \E outcome \in DisconnectOutcomes : Committed /\ HandleConnectionError(outcome)
    \/ Committed /\ Render
    \/ \E t \in TermInits : Committed /\ TerminalCreateOk(t)
    \/ \E t \in TermInits : Committed /\ TerminalCreateFail(t)
    \/ \E t \in TermInits : Committed /\ TerminalOpenOk(t)
    \/ \E t \in TermInits : Committed /\ TerminalOpenFail(t)

SpecManager == Init /\ [][NextManager]_vars

\* C29: for every client at most one remote terminal and at most one xterm
\* instance are created.
C29_OneTerminalPerClient ==
    \A k \in Calls : remoteTerminals[k] <= 1 /\ xterms[k] <= 1

\* ----------------------------------------- SandboxManager: the file browser
\* What the file browser actions leave alone.
fileFrame == <<connectionVars, cliVars, appVars, termVars>>

\* navigateUp: currentPath.split('/').slice(0, -1).join('/') || '/'.
parentPath(path) == IF path = <<>> THEN <<>> ELSE SubSeq(path, 1, Len(path) - 1)

\* The path of a listing entry: path === '/' ? `/${name}` : `${path}/${name}`.
entryPath(path, name) == Append(path, name)

\* loadFiles(path) up to its await: setIsLoadingFiles(true) and the readdir call.
loadFiles(path) ==
    /\ nLoads < MaxLoads
    /\ nLoads' = nLoads + 1
    /\ loadPath' = [loadPath EXCEPT ![nLoads + 1] = path]
    /\ loadPc' = [loadPc EXCEPT ![nLoads + 1] = "pending"]
    /\ isLoadingFiles' = TRUE

\* The user switches to the files tab of a connected SandboxManager: the effect
\* (deps client, currentPath, activeTab) loads the current path.
OpenFilesTab ==
    /\ activeTab = "terminal"
    /\ activeTab' = "files"
    /\ loadFiles(currentPath)
    /\ UNCHANGED <<currentPath, files>>
    /\ UNCHANGED fileFrame

\* The user switches back to the terminal tab.
OpenTerminalTab ==
    /\ activeTab = "files"
    /\ activeTab' = "terminal"
    /\ UNCHANGED <<currentPath, files, isLoadingFiles, nLoads, loadPath, loadPc>>
    /\ UNCHANGED fileFrame

\* navigateToPath(path) from the files tab (a directory entry, a breadcrumb or
\* navigateUp): setCurrentPath, and the effect loads the new path.
NavigateToPath(path) ==
    /\ activeTab = "files"
    /\ path # currentPath
    /\ currentPath' = path
    /\ loadFiles(path)
    /\ UNCHANGED <<activeTab, files>>
    /\ UNCHANGED fileFrame

\* client.fs.readdir of invocation l resolves: setFiles with its entries, and
\* finally setIsLoadingFiles(false).
ReaddirOk(l) ==
    /\ loadPc[l] = "pending"
    /\ loadPc' = [loadPc EXCEPT ![l] = "done"]
    /\ files' = readdir(loadPath[l])
    /\ isLoadingFiles' = FALSE
    /\ UNCHANGED <<activeTab, currentPath, nLoads, loadPath>>
    /\ UNCHANGED fileFrame

\* client.fs.readdir rejects: the error is logged, finally setIsLoadingFiles(false).
ReaddirFail(l) ==
    /\ loadPc[l] = "pending"
    /\ loadPc' = [loadPc EXCEPT ![l] = "failed"]
    /\ isLoadingFiles' = FALSE
    /\ UNCHANGED <<activeTab, currentPath, files, nLoads, loadPath>>
    /\ UNCHANGED fileFrame

NextFiles ==
    \/ OpenFilesTab
    \/ OpenTerminalTab
    \/ \E name \in {"project", "workspace", "src"} :
           /\ entryPath(currentPath, name) \in Paths
           /\ NavigateToPath(entryPath(currentPath, name))
    \/ currentPath # <<>> /\ NavigateToPath(parentPath(currentPath))
    \/ \E l \in Loads : ReaddirOk(l)
    \/ \E l \in Loads : ReaddirFail(l)

SpecFiles == Init /\ [][NextFiles]_vars

\* C30: once no loadFiles call is pending (and every call resolved), the
\* displayed list is the listing of the current path and isLoadingFiles is false.
C30_FilesOfCurrentPath ==
    (nLoads >= 1 /\ \A l \in Loads : l <= nLoads => loadPc[l] = "done") =>
        files = readdir(currentPath) /\ ~isLoadingFiles

====
